---- MODULE Spec2Model ----
(***************************************************************************)
(* Opening Repertoire Extractor (src/opening_repertoire.py).               *)
(*                                                                         *)
(* One run of main(): load_games, get_most_frequent_player,                *)
(* filter_games_by_player_and_color, extract_opening_moves,                *)
(* create_repertoire_pgn (build_variation_tree + add_variations_to_node)   *)
(* and the final write of the output file.                                 *)
(*                                                                         *)
(* A game of the corpus is a record                                        *)
(*   [White, Black, Result : header strings ("" = header absent/empty),    *)
(*    moves   : the SAN tokens of its main line, in order,                 *)
(*    illegal : the ply at which board.san() raises when the main line is  *)
(*              replayed from the standard start position (0 = never)].    *)
(* A SAN token is a string, modelled as a non-empty sequence of character  *)
(* codes; the code 0 is the blank that " ".join puts between tokens.       *)
(* Lists of games hold indices into self.games (object identity).          *)
(***************************************************************************)
EXTENDS Integers, Sequences, FiniteSets, TLC

\* ------------------------------------------------------------- bounds
MaxGames == 3
MaxLen == 2
MaxDepth == 2

\* ------------------------------------------------------------- vocabulary
Space == 0

\* Two SAN tokens. TokB ends the game it is played in (as a mating move does):
\* no main line continues after it.
TokA == <<1>>
TokB == <<1, 2>>
Tokens == {TokA, TokB}

NoOverride == <<>>

Min(a, b) == IF a < b THEN a ELSE b

SeqsUpTo(S, n) == UNION {[1..k -> S] : k \in 0..n}

\* The main lines of at most MaxLen plies.
MoveSeqs ==
    {ms \in SeqsUpTo(Tokens, MaxLen) : \A j \in 1..(Len(ms) - 1) : ms[j] # TokB}

Game(w, b, r, ms, bad) ==
    [White |-> w, Black |-> b, Result |-> r, moves |-> ms, illegal |-> bad]

VARIABLES
    pc,              \* position in main / extract_repertoire
    file_state,      \* input file: "ok", "missing", "unreadable"
    corpus,          \* the games the input file holds
    color,           \* --color
    depth,           \* --depth
    player,          \* --player: <<>> (None) or <<name>>
    unparseable,     \* node paths at which board.parse_san raises
    games,           \* self.games
    player_counts,   \* self.player_counts: <<name, count>> in insertion order
    player_name,
    filtered_games,
    openings,        \* <<[key, games]>> in insertion order
    move_tree,
    repertoire,      \* the variations added to repertoire_game, and warnings
    output_file,     \* [opened, content]: the output file of line 279
    exception,       \* the exception propagating to main's handlers, or "none"
    outcome          \* how the run ended

vars == <<pc, file_state, corpus, color, depth, player, unparseable, games,
          player_counts, player_name, filtered_games, openings, move_tree,
          repertoire, output_file, exception, outcome>>

\* ------------------------------------------------------------- load_games
Increment(counts, name) ==
    IF \E i \in 1..Len(counts) : counts[i][1] = name
    THEN [i \in 1..Len(counts) |->
            IF counts[i][1] = name THEN <<name, counts[i][2] + 1>> ELSE counts[i]]
    ELSE Append(counts, <<name, 1>>)

CountGame(counts, g) ==
    LET c1 == IF g.White # "" THEN Increment(counts, g.White) ELSE counts
    IN  IF g.Black # "" THEN Increment(c1, g.Black) ELSE c1

RECURSIVE CountPlayers(_, _)
CountPlayers(gs, counts) ==
    IF gs = <<>> THEN counts
    ELSE CountPlayers(Tail(gs), CountGame(counts, Head(gs)))

\* ------------------------------------------------------------- get_most_frequent_player
\* Faulty variant: the last item of maximal count
most_common_last(counts) ==
    LET i == CHOOSE k \in 1..Len(counts) :
                 /\ \A j \in 1..Len(counts) : counts[j][2] <= counts[k][2]
                 /\ \A j \in (k + 1)..Len(counts) : counts[j][2] < counts[k][2]
    IN  counts[i]

\* Counter.most_common(1): heapq.nlargest(1, items, key=count) = max(items, key=count),
\* the first item of maximal count in the dict's (insertion) order.
most_common_1(counts) ==
    LET i == CHOOSE k \in 1..Len(counts) :
                 /\ \A j \in 1..Len(counts) : counts[j][2] <= counts[k][2]
                 /\ \A j \in 1..(k - 1) : counts[j][2] < counts[k][2]
    IN  counts[i]

get_most_frequent_player(counts) == most_common_1(counts)[1]

\* ------------------------------------------------------------- filter_games_by_player_and_color
color_field(g, c) == IF c = "white" THEN g.White ELSE g.Black

RECURSIVE FilterFrom(_, _, _, _)
FilterFrom(gs, i, name, c) ==
    IF i > Len(gs) THEN <<>>
    ELSE (IF color_field(gs[i], c) = name THEN <<i>> ELSE <<>>)
         \o FilterFrom(gs, i + 1, name, c)

filter_games_by_player_and_color(gs, name, c) == FilterFrom(gs, 1, name, c)

\* ------------------------------------------------------------- extract_opening_moves
\* Faulty variant: range(depth + 1): one ply too many
TruncatedOneMore(g, d) == SubSeq(g.moves, 1, Min(d + 1, Len(g.moves)))

\* lines 81-90: follow variations[0] at most depth times
Truncated(g, d) == SubSeq(g.moves, 1, Min(d, Len(g.moves)))

\* line 98: board.san(move) raises on a move that is illegal on chess.Board()
SanRaises(g, d) == g.illegal # 0 /\ g.illegal <= Len(Truncated(g, d))

\* line 101: " ".join(san_moves)
RECURSIVE Join(_)
Join(toks) ==
    IF toks = <<>> THEN <<>>
    ELSE IF Len(toks) = 1 THEN toks[1]
    ELSE toks[1] \o <<Space>> \o Join(Tail(toks))

\* line 102: openings[opening_key].append(game), a defaultdict(list)
AppendGame(ops, key, gi) ==
    IF \E k \in 1..Len(ops) : ops[k].key = key
    THEN [k \in 1..Len(ops) |->
            IF ops[k].key = key THEN [ops[k] EXCEPT !.games = Append(@, gi)]
            ELSE ops[k]]
    ELSE Append(ops, [key |-> key, games |-> <<gi>>])

RECURSIVE GroupOpenings(_, _, _, _)
GroupOpenings(gs, fg, d, ops) ==
    IF fg = <<>> THEN ops
    ELSE LET moves == Truncated(gs[Head(fg)], d)
         IN  GroupOpenings(gs, Tail(fg), d,
                 IF moves # <<>> THEN AppendGame(ops, Join(moves), Head(fg)) ELSE ops)

extract_opening_moves(gs, fg, d) == GroupOpenings(gs, fg, d, <<>>)

ExtractRaises(gs, fg, d) == \E k \in 1..Len(fg) : SanRaises(gs[fg[k]], d)

\* ------------------------------------------------------------- build_variation_tree
\* move_tree: the nested dicts of lines 141-165. A node is named by its path
\* (the tokens from the root); top is the key order of the outermost dict.
EmptyTree == [top |-> <<>>, nodes |-> [p \in {} |-> 0]]

NewNode(i) ==
    [children |-> <<>>, games_through |-> <<>>, games_ending |-> <<>>,
     move_number |-> i]

ChildrenOf(tree, path) ==
    IF path = <<>> THEN tree.top ELSE tree.nodes[path].children

\* line 145: opening_moves.split(), on runs of blanks, no empty pieces
RECURSIVE SplitFrom(_, _, _)
SplitFrom(s, cur, acc) ==
    IF s = <<>> THEN (IF cur = <<>> THEN acc ELSE Append(acc, cur))
    ELSE IF Head(s) = Space
         THEN SplitFrom(Tail(s), <<>>, IF cur = <<>> THEN acc ELSE Append(acc, cur))
         ELSE SplitFrom(Tail(s), Append(cur, Head(s)), acc)

Split(s) == SplitFrom(s, <<>>, <<>>)

\* lines 150-156: create the child under the current level when it is new
EnsureChild(tree, parent, san, i) ==
    LET ch == ChildrenOf(tree, parent)
        path == Append(parent, san)
    IN  IF \E k \in 1..Len(ch) : ch[k] = san THEN tree
        ELSE LET added == (path :> NewNode(i)) @@ tree.nodes
             IN  IF parent = <<>>
                 THEN [top |-> Append(tree.top, san), nodes |-> added]
                 ELSE [top |-> tree.top,
                       nodes |-> [added EXCEPT ![parent].children = Append(@, san)]]

\* Faulty variant: the games are stored when the node is created, not added on each visit
ThroughOnCreation(through, gs) == IF through = <<>> THEN gs ELSE through

\* line 159
ThroughAfter(through, gs) == through \o gs

\* Faulty variant: the test of line 162 dropped: every node of the line gets the games
EndingAlways(ending, gs, i, n) == ending \o gs

\* Faulty variant: the test of line 162 written `i == len(moves)`, which no index meets
EndingNever(ending, gs, i, n) == IF i = n + 1 THEN ending \o gs ELSE ending

\* lines 162-163
EndingAfter(ending, gs, i, n) == IF i = n THEN ending \o gs ELSE ending

RECURSIVE InsertLine(_, _, _, _)
InsertLine(tree, moves, gs, i) ==
    IF i > Len(moves) THEN tree
    ELSE LET path == SubSeq(moves, 1, i)
             t1 == EnsureChild(tree, SubSeq(moves, 1, i - 1), moves[i], i)
             t2 == [t1 EXCEPT
                      !.nodes[path].games_through = ThroughAfter(@, gs),
                      !.nodes[path].games_ending = EndingAfter(@, gs, i, Len(moves))]
         IN  InsertLine(t2, moves, gs, i + 1)

\* Faulty variant: the lines are inserted last-seen first
OpeningsItemsReversed(ops) == [k \in 1..Len(ops) |-> ops[Len(ops) + 1 - k]]

\* line 144: openings.items(), in the dict's insertion order
OpeningsItems(ops) == ops

RECURSIVE InsertAll(_, _)
InsertAll(tree, items) ==
    IF items = <<>> THEN tree
    ELSE InsertAll(InsertLine(tree, Split(Head(items).key), Head(items).games, 1),
                   Tail(items))

build_move_tree(ops) == InsertAll(EmptyTree, OpeningsItems(ops))

\* lines 125, 168: sum(len(games) for games in openings.values())
RECURSIVE total_games(_)
total_games(ops) ==
    IF ops = <<>> THEN 0 ELSE Len(Head(ops).games) + total_games(Tail(ops))

\* ------------------------------------------------------------- get_result_for_player
get_result_for_player(g, name, c) ==
    IF g.Result = "*" \/ g.Result = "1/2-1/2"
    THEN (IF g.Result = "1/2-1/2" THEN "1/2" ELSE "*")
    ELSE LET player_is_white == (g.White = name)
         IN  IF c = "white" /\ player_is_white
             THEN (IF g.Result = "1-0" THEN "1" ELSE "0")
             ELSE IF c = "black" /\ ~player_is_white
             THEN (IF g.Result = "0-1" THEN "1" ELSE "0")
             ELSE "*"

\* ------------------------------------------------------------- add_variations_to_node
PassThrough(tree, path) == Len(tree.nodes[path].games_through)

\* Faulty variant: reverse=True achieved by reversing an ascending sort: equal counts
\* come out last-inserted first
SortsBeforeReversed(ka, ia, kb, ib) == ka > kb \/ (ka = kb /\ ia > ib)

\* lines 176-178: sorted(..., key=len(games_through), reverse=True) is stable:
\* the item with key ka at position ia comes before the one with kb at ib
SortsBefore(ka, ia, kb, ib) == ka > kb \/ (ka = kb /\ ia < ib)

sorted_moves(tree, path) ==
    LET ch == ChildrenOf(tree, path)
        key(k) == PassThrough(tree, Append(path, ch[k]))
        rank(k) == 1 + Cardinality({j \in 1..Len(ch) :
                                      j # k /\ SortsBefore(key(j), j, key(k), k)})
    IN  [r \in 1..Len(ch) |-> ch[CHOOSE k \in 1..Len(ch) : rank(k) = r]]

\* lines 203-205
CountResult(gs, ending, name, c, res) ==
    Cardinality({k \in 1..Len(ending) :
                    get_result_for_player(gs[ending[k]], name, c) = res})

\* line 188
play_percentage(n, parent_game_count) ==
    IF parent_game_count > 0 THEN <<n, parent_game_count>> ELSE <<0, 1>>

\* One record per child tried at a node: kind "move" (the child stands at
\* position index of node.variations, whose first item is the main line) or
\* "warning" (line 230).
Entry(kind, path, index, play, ngames, w, d, l) ==
    [kind |-> kind, path |-> path, index |-> index, play |-> play,
     games |-> ngames, wins |-> w, draws |-> d, losses |-> l]

\* chess.pgn.GameNode.add_main_variation: the new node goes to the front of
\* node.variations; add_variation: to the end
add_main_variation(variations, move) == <<move>> \o variations
add_variation(variations, move) == Append(variations, move)

\* Faulty variant: line 193 missing: first_move is never cleared
FirstMoveKept(first_move) == first_move

\* line 193
FirstMoveAfter(first_move) == FALSE

\* lines 181-195, 229-231: node.variations after the loop over sorted_moves;
\* a move that board.parse_san rejects is skipped
RECURSIVE AddChildren(_, _, _, _, _)
AddChildren(sm, path, bad, first_move, variations) ==
    IF sm = <<>> THEN variations
    ELSE IF Append(path, Head(sm)) \in bad
         THEN AddChildren(Tail(sm), path, bad, first_move, variations)
         ELSE AddChildren(Tail(sm), path, bad, FirstMoveAfter(first_move),
                          IF first_move
                          THEN add_main_variation(variations, Head(sm))
                          ELSE add_variation(variations, Head(sm)))

RECURSIVE add_variations_to_node(_, _, _, _, _, _, _)
add_variations_to_node(tree, path, bad, gs, name, c, parent_game_count) ==
    LET sm == sorted_moves(tree, path)
        variations == AddChildren(sm, path, bad, TRUE, <<>>)
        warned == {Entry("warning", Append(path, sm[k]), 0, <<0, 1>>, 0, 0, 0, 0) :
                       k \in {j \in 1..Len(sm) : Append(path, sm[j]) \in bad}}
        added(k) ==
            LET p == Append(path, variations[k])
                ending == tree.nodes[p].games_ending
            IN  Entry("move", p, k,
                      play_percentage(PassThrough(tree, p), parent_game_count),
                      Len(ending),
                      CountResult(gs, ending, name, c, "1"),
                      CountResult(gs, ending, name, c, "1/2"),
                      CountResult(gs, ending, name, c, "0"))
        below(k) ==
            LET p == Append(path, variations[k])
            IN  IF tree.nodes[p].children # <<>>
                THEN add_variations_to_node(tree, p, bad, gs, name, c,
                                            PassThrough(tree, p))
                ELSE {}
    IN  warned \cup {added(k) : k \in 1..Len(variations)}
               \cup UNION {below(k) : k \in 1..Len(variations)}

\* ------------------------------------------------------------- main
ExceptionClasses == {"FileNotFoundError", "PermissionError", "ValueError", "SanError"}

\* Faulty variant: `except ValueError` in place of `except Exception`
main_handler_narrow(exc) ==
    IF exc = "FileNotFoundError" THEN "input_not_found"
    ELSE IF exc = "ValueError" THEN "error"
    ELSE "uncaught"

\* lines 316-319
main_handler(exc) ==
    IF exc = "FileNotFoundError" THEN "input_not_found"
    ELSE IF exc \in ExceptionClasses THEN "error"
    ELSE "uncaught"

\* lines 264, 271: `if not filtered_games`, `if not openings`
IsEmpty(xs) == Len(xs) = 0

\* ------------------------------------------------------------- actions
Raise(exc) ==
    /\ exception' = exc
    /\ pc' = "except"

\* line 34, the file cannot be opened
LoadGamesFails ==
    /\ pc = "load"
    /\ file_state # "ok"
    /\ Raise(IF file_state = "missing" THEN "FileNotFoundError" ELSE "PermissionError")
    /\ UNCHANGED <<file_state, corpus, color, depth, player, unparseable, games,
                   player_counts, player_name, filtered_games, openings,
                   move_tree, repertoire, output_file, outcome>>

\* lines 34-49
LoadGames ==
    /\ pc = "load"
    /\ file_state = "ok"
    /\ games' = corpus
    /\ player_counts' = CountPlayers(corpus, <<>>)
    /\ pc' = "identify"
    /\ UNCHANGED <<file_state, corpus, color, depth, player, unparseable,
                   player_name, filtered_games, openings, move_tree, repertoire,
                   output_file, exception, outcome>>

\* lines 258-259 with --player given
UsePlayerArgument ==
    /\ pc = "identify"
    /\ player # NoOverride
    /\ player_name' = player[1]
    /\ pc' = "filter"
    /\ UNCHANGED <<file_state, corpus, color, depth, player, unparseable, games,
                   player_counts, filtered_games, openings, move_tree, repertoire,
                   output_file, exception, outcome>>

\* lines 55-56
NoPlayersFound ==
    /\ pc = "identify"
    /\ player = NoOverride
    /\ player_counts = <<>>
    /\ Raise("ValueError")
    /\ UNCHANGED <<file_state, corpus, color, depth, player, unparseable, games,
                   player_counts, player_name, filtered_games, openings,
                   move_tree, repertoire, output_file, outcome>>

\* lines 58-62
GetMostFrequentPlayer ==
    /\ pc = "identify"
    /\ player = NoOverride
    /\ player_counts # <<>>
    /\ player_name' = get_most_frequent_player(player_counts)
    /\ pc' = "filter"
    /\ UNCHANGED <<file_state, corpus, color, depth, player, unparseable, games,
                   player_counts, filtered_games, openings, move_tree, repertoire,
                   output_file, exception, outcome>>

\* lines 262-266
FilterGames ==
    /\ pc = "filter"
    /\ LET fg == filter_games_by_player_and_color(games, player_name, color)
       IN  /\ filtered_games' = fg
           /\ IF IsEmpty(fg)
              THEN pc' = "done" /\ outcome' = "no_games"
              ELSE pc' = "extract" /\ outcome' = outcome
    /\ UNCHANGED <<file_state, corpus, color, depth, player, unparseable, games,
                   player_counts, player_name, openings, move_tree, repertoire,
                   output_file, exception>>

\* line 269, board.san raising inside extract_opening_moves
ExtractOpeningMovesFails ==
    /\ pc = "extract"
    /\ ExtractRaises(games, filtered_games, depth)
    /\ Raise("SanError")
    /\ UNCHANGED <<file_state, corpus, color, depth, player, unparseable, games,
                   player_counts, player_name, filtered_games, openings,
                   move_tree, repertoire, output_file, outcome>>

\* lines 269-273
ExtractOpeningMoves ==
    /\ pc = "extract"
    /\ ~ExtractRaises(games, filtered_games, depth)
    /\ LET ops == extract_opening_moves(games, filtered_games, depth)
       IN  /\ openings' = ops
           /\ IF IsEmpty(ops)
              THEN pc' = "done" /\ outcome' = "no_openings"
              ELSE pc' = "create" /\ outcome' = outcome
    /\ UNCHANGED <<file_state, corpus, color, depth, player, unparseable, games,
                   player_counts, player_name, filtered_games, move_tree,
                   repertoire, output_file, exception>>

\* line 276: create_repertoire_pgn, with build_variation_tree and the
\* add_variations_to_node call that ends it
CreateRepertoirePgn ==
    /\ pc = "create"
    /\ LET tree == build_move_tree(openings)
       IN  /\ move_tree' = tree
           /\ repertoire' = add_variations_to_node(tree, <<>>, unparseable, games,
                                player_name, color, total_games(openings))
    /\ pc' = "save"
    /\ UNCHANGED <<file_state, corpus, color, depth, player, unparseable, games,
                   player_counts, player_name, filtered_games, openings,
                   output_file, exception, outcome>>

\* lines 279-282
SaveRepertoire ==
    /\ pc = "save"
    /\ output_file' = [opened |-> TRUE, content |-> repertoire]
    /\ outcome' = "saved"
    /\ pc' = "done"
    /\ UNCHANGED <<file_state, corpus, color, depth, player, unparseable, games,
                   player_counts, player_name, filtered_games, openings,
                   move_tree, repertoire, exception>>

\* lines 316-319
HandleException ==
    /\ pc = "except"
    /\ outcome' = main_handler(exception)
    /\ pc' = "done"
    /\ UNCHANGED <<file_state, corpus, color, depth, player, unparseable, games,
                   player_counts, player_name, filtered_games, openings,
                   move_tree, repertoire, output_file, exception>>

Next ==
    \/ LoadGamesFails
    \/ LoadGames
    \/ UsePlayerArgument
    \/ NoPlayersFound
    \/ GetMostFrequentPlayer
    \/ FilterGames
    \/ ExtractOpeningMovesFails
    \/ ExtractOpeningMoves
    \/ CreateRepertoirePgn
    \/ SaveRepertoire
    \/ HandleException

\* ------------------------------------------------------------- initial states
\* The state after OpeningRepertoireExtractor.__init__ (lines 25-28), for one
\* choice of the command line and of the input file.
Input(fs, cp, c, d, p, bad) ==
    [file_state |-> fs, corpus |-> cp, color |-> c, depth |-> d, player |-> p,
     unparseable |-> bad]

InitFrom(inputs) ==
    /\ \E in \in inputs :
          /\ file_state = in.file_state
          /\ corpus = in.corpus
          /\ color = in.color
          /\ depth = in.depth
          /\ player = in.player
          /\ unparseable = in.unparseable
    /\ pc = "load"
    /\ games = <<>>
    /\ player_counts = <<>>
    /\ player_name = ""
    /\ filtered_games = <<>>
    /\ openings = <<>>
    /\ move_tree = EmptyTree
    /\ repertoire = {}
    /\ output_file = [opened |-> FALSE, content |-> {}]
    /\ exception = "none"
    /\ outcome = "running"

\* Runs that end early: no input file, an unreadable one, a corpus that names
\* no player, a game whose first move board.san rejects.
FailingInputs ==
    {Input("missing", <<>>, "white", 1, NoOverride, {}),
     Input("unreadable", <<>>, "white", 1, NoOverride, {}),
     Input("ok", <<Game("", "", "*", <<TokA>>, 0)>>, "white", 1, NoOverride, {}),
     Input("ok", <<Game("A", "B", "1-0", <<TokA>>, 1)>>, "white", 1, NoOverride, {})}

\* Opening trees: every corpus of games of A (White) or of B, every depth.
TreeGames ==
    {Game("A", "B", "1-0", ms, 0) : ms \in MoveSeqs}
        \cup {Game("B", "A", "0-1", <<TokA>>, 0)}

TreeInputs ==
    {Input("ok", cp, "white", d, <<"A">>, {}) :
        cp \in SeqsUpTo(TreeGames, MaxGames), d \in 0..MaxDepth}
        \cup FailingInputs

InitTree == InitFrom(TreeInputs)

SpecTree == InitTree /\ [][Next]_vars

\* Serialization: the same corpora at full depth, with at most one node path
\* at which board.parse_san fails.
SerializeInputs ==
    {Input("ok", cp, "white", MaxDepth, <<"A">>, bad) :
        cp \in SeqsUpTo(TreeGames, MaxGames),
        bad \in {{}} \cup {{ms} : ms \in MoveSeqs \ {<<>>}}}
        \cup FailingInputs

InitSerialize == InitFrom(SerializeInputs)

SpecSerialize == InitSerialize /\ [][Next]_vars

\* Player identification: every naming of the two color headers, with and
\* without --player.
PlayerGames == {Game(w, b, "*", <<TokA>>, 0) : w \in {"", "A", "B"}, b \in {"", "A", "B"}}

PlayerInputs ==
    {Input("ok", cp, "white", 1, p, {}) :
        cp \in SeqsUpTo(PlayerGames, MaxGames), p \in {NoOverride, <<"B">>, <<"C">>}}
        \cup FailingInputs

InitPlayer == InitFrom(PlayerInputs)

SpecPlayer == InitPlayer /\ [][Next]_vars

\* Results: every naming of the headers by A and B and every result, for both
\* colors.
ResultGames ==
    {Game(w, b, r, <<TokA>>, 0) :
        w \in {"A", "B"}, b \in {"A", "B"}, r \in {"1-0", "0-1", "1/2-1/2", "*"}}

ResultInputs ==
    {Input("ok", cp, c, 1, <<"A">>, {}) :
        cp \in SeqsUpTo(ResultGames, MaxGames - 1), c \in {"white", "black"}}
        \cup FailingInputs

InitResult == InitFrom(ResultInputs)

SpecResult == InitResult /\ [][Next]_vars

\* Whole runs: games of A whose first move board.san may reject, games of B,
\* games naming nobody; a missing or unreadable input file.
RunGames ==
    {Game("A", "B", "1-0", ms, 0) : ms \in MoveSeqs}
        \cup {Game("A", "B", "1-0", ms, 1) : ms \in MoveSeqs \ {<<>>}}
        \cup {Game("B", "A", "0-1", <<TokA>>, 0), Game("", "", "*", <<TokA>>, 0)}

RunInputs ==
    {Input("ok", cp, "white", d, p, bad) :
        cp \in SeqsUpTo(RunGames, MaxGames - 1), d \in 0..MaxDepth,
        p \in {NoOverride, <<"A">>}, bad \in {{}, {<<TokA>>}}}
        \cup FailingInputs

InitRun == InitFrom(RunInputs)

SpecRun == InitRun /\ [][Next]_vars

\* ============================================================= claims
IsPrefix(p, s) == Len(p) <= Len(s) /\ SubSeq(s, 1, Len(p)) = p

Nodes == DOMAIN move_tree.nodes

Through(p) == move_tree.nodes[p].games_through
Ending(p) == move_tree.nodes[p].games_ending

RECURSIVE SumThrough(_, _, _)
SumThrough(tree, path, toks) ==
    IF toks = <<>> THEN 0
    ELSE Len(tree.nodes[Append(path, Head(toks))].games_through)
         + SumThrough(tree, path, Tail(toks))

ChildSum(p) == SumThrough(move_tree, p, ChildrenOf(move_tree, p))

\* The first min(depth, length) tokens of the k-th filtered game.
Line(k) ==
    LET ms == games[filtered_games[k]].moves
    IN  [j \in 1..Min(depth, Len(ms)) |-> ms[j]]

Filtered == 1..Len(filtered_games)

Occurrences(xs, x) == Cardinality({j \in 1..Len(xs) : xs[j] = x})

\* The tree has been built (create_repertoire_pgn has returned).
Built == pc = "save" \/ outcome = "saved"

\* C1: every node's pass-through count is the number of filtered games whose
\* move sequence, cut to at most depth plies and non-empty, starts with the
\* node's path; a game whose cut sequence is empty is in no node.
C1_PassThroughCount ==
    /\ \A p \in Nodes :
          Len(Through(p)) =
              Cardinality({k \in Filtered : Line(k) # <<>> /\ IsPrefix(p, Line(k))})
    /\ \A k \in Filtered : Line(k) = <<>> =>
          \A p \in Nodes : Occurrences(Through(p), filtered_games[k]) = 0
                           /\ Occurrences(Ending(p), filtered_games[k]) = 0

\* A built tree with a node two games pass through, a game cut short by the
\* depth and a filtered game without moves.
C1_Witness ==
    /\ pc = "done" /\ outcome = "saved"
    /\ \E p \in Nodes : Len(Through(p)) = 2
    /\ \E k \in Filtered : Len(games[filtered_games[k]].moves) > depth /\ depth > 0
    /\ \E k \in Filtered : Line(k) = <<>>

\* C2 (as claimed): at every node with children the children's pass-through
\* counts add up to the node's own.
C2_ChildrenSumToParent ==
    \A p \in Nodes : ChildrenOf(move_tree, p) # <<>> => ChildSum(p) = Len(Through(p))

\* C2 (amended): at every node with children the children's pass-through counts
\* add up to the node's own count less its terminal games: to the node's count
\* when it holds no terminal game, to strictly less when it holds some.
C2_ChildrenSumAmended ==
    \A p \in Nodes : ChildrenOf(move_tree, p) # <<>> =>
        /\ ChildSum(p) = Len(Through(p)) - Len(Ending(p))
        /\ Ending(p) = <<>> => ChildSum(p) = Len(Through(p))
        /\ Ending(p) # <<>> => ChildSum(p) < Len(Through(p))

\* Written output with a node that has two children and one terminal game:
\* three games pass through it and its children's counts add up to two.
C2_Witness ==
    /\ pc = "done" /\ outcome = "saved"
    /\ \E p \in Nodes :
          /\ Len(ChildrenOf(move_tree, p)) = 2
          /\ Len(Ending(p)) = 1
          /\ Len(Through(p)) = 3 /\ ChildSum(p) = 2

\* C8: every filtered game with a non-empty cut sequence is a terminal game of
\* exactly one node, the node whose path is that sequence, once; the terminal
\* games of a node are only such games.
C8_TerminalOnce ==
    Built =>
        /\ \A k \in Filtered : Line(k) # <<>> =>
              /\ Line(k) \in Nodes
              /\ \A p \in Nodes :
                    Occurrences(Ending(p), filtered_games[k])
                        = IF p = Line(k) THEN 1 ELSE 0
        /\ \A p \in Nodes : \A j \in 1..Len(Ending(p)) :
              \E k \in Filtered : filtered_games[k] = Ending(p)[j] /\ Line(k) = p

\* Scenario B: a node that is terminal for one game and lies on the line of a
\* longer one, so its pass-through count exceeds its terminal games.
C8_Witness ==
    /\ pc = "done" /\ outcome = "saved"
    /\ \E p \in Nodes :
          /\ Len(Ending(p)) = 1
          /\ ChildrenOf(move_tree, p) # <<>>
          /\ Len(Through(p)) > Len(Ending(p))

\* The build of the specification (4.3): the filtered games one at a time, in
\* corpus order; each walks from the root, creating a child at the end of the
\* child order when the token is new, and is recorded at every node of its
\* line and as terminal at the last.
RECURSIVE RefWalk(_, _, _, _)
RefWalk(tree, line, g, i) ==
    IF i > Len(line) THEN tree
    ELSE LET path == SubSeq(line, 1, i)
             parent == SubSeq(line, 1, i - 1)
             t1 == IF path \in DOMAIN tree.nodes THEN tree
                   ELSE LET nodes1 == (path :> [children |-> <<>>, through |-> {},
                                                terminal |-> {}]) @@ tree.nodes
                        IN  IF parent = <<>>
                            THEN [top |-> Append(tree.top, line[i]), nodes |-> nodes1]
                            ELSE [top |-> tree.top,
                                  nodes |-> [nodes1 EXCEPT ![parent].children =
                                                             Append(@, line[i])]]
             t2 == [t1 EXCEPT !.nodes[path].through = @ \cup {g},
                              !.nodes[path].terminal =
                                  IF i = Len(line) THEN @ \cup {g} ELSE @]
         IN  RefWalk(t2, line, g, i + 1)

RECURSIVE RefBuildFrom(_, _)
RefBuildFrom(tree, k) ==
    IF k > Len(filtered_games) THEN tree
    ELSE RefBuildFrom(RefWalk(tree, Line(k), filtered_games[k], 1), k + 1)

RefTree == RefBuildFrom([top |-> <<>>, nodes |-> [p \in {} |-> 0]], 1)

\* C9: the tree built from the grouped lines is the tree of the one-game-at-a-
\* time build: the same node paths, the same pass-through and terminal counts
\* and the same child order (first seen after the prefix, in corpus order).
C9_SameAsGameByGame ==
    Built =>
        LET ref == RefTree
        IN  /\ Nodes = DOMAIN ref.nodes
            /\ move_tree.top = ref.top
            /\ \A p \in Nodes :
                  /\ move_tree.nodes[p].children = ref.nodes[p].children
                  /\ Len(Through(p)) = Cardinality(ref.nodes[p].through)
                  /\ Len(Ending(p)) = Cardinality(ref.nodes[p].terminal)

\* Three filtered games of which the third repeats the line of the first and
\* the second branches off it: grouping records the third game before the
\* second, and the shared node has two children.
C9_Witness ==
    /\ pc = "done" /\ outcome = "saved"
    /\ Len(filtered_games) = 3 /\ Len(openings) = 2
    /\ Line(1) = Line(3) /\ Line(1) # Line(2)
    /\ \E p \in Nodes : Len(ChildrenOf(move_tree, p)) = 2

\* C10: at every node the pass-through count is the number of terminal games
\* plus the children's pass-through counts; the total the top-level moves are
\* divided by is the sum of the top-level counts and the number of filtered
\* games with at least one move; so no child exceeds its parent and every play
\* percentage is a fraction between 0 and 1.
C10_Conservation ==
    Built =>
        /\ \A p \in Nodes : Len(Through(p)) = Len(Ending(p)) + ChildSum(p)
        /\ total_games(openings) = ChildSum(<<>>)
        /\ total_games(openings) = Cardinality({k \in Filtered : Line(k) # <<>>})
        /\ \A p \in Nodes : \A j \in 1..Len(ChildrenOf(move_tree, p)) :
              Len(Through(Append(p, ChildrenOf(move_tree, p)[j]))) <= Len(Through(p))
        /\ \A e \in repertoire : e.kind = "move" =>
              /\ e.play[1] = Len(Through(e.path))
              /\ e.play[2] = IF Len(e.path) = 1 THEN total_games(openings)
                             ELSE Len(Through(SubSeq(e.path, 1, Len(e.path) - 1)))
              /\ 0 < e.play[1] /\ e.play[1] <= e.play[2]

\* Written output whose tree has a node with terminal games and two children,
\* and a top level of two moves.
C10_Witness ==
    /\ pc = "done" /\ outcome = "saved"
    /\ Len(move_tree.top) = 2
    /\ \E p \in Nodes : Ending(p) # <<>> /\ ChildrenOf(move_tree, p) # <<>>
    /\ \E e \in repertoire : e.kind = "move" /\ e.play[1] < e.play[2]

\* ------------------------------------------------------------- serialization
Parent(p) == SubSeq(p, 1, Len(p) - 1)
Last(p) == p[Len(p)]

Moves == {e \in repertoire : e.kind = "move"}
Warnings == {e.path : e \in {w \in repertoire : w.kind = "warning"}}
Emitted == {e.path : e \in Moves}

Position(xs, x) == CHOOSE j \in 1..Len(xs) : xs[j] = x

HoldsColor(g) == color_field(g, color) = player_name
Decisive(g) == g.Result \in {"1-0", "0-1"}
LiteralWin(g) == g.Result = (IF color = "white" THEN "1-0" ELSE "0-1")

\* C4: every terminal game with a decisive result in which the player holds
\* the requested color counts as a win or as a loss, by the literal result, in
\* the tally of its node.
C4_DecisiveIsWinOrLoss ==
    \A e \in Moves :
        LET ending == Ending(e.path)
            mine == {j \in 1..Len(ending) :
                        Decisive(games[ending[j]]) /\ HoldsColor(games[ending[j]])}
        IN  /\ e.wins = Cardinality({j \in mine : LiteralWin(games[ending[j]])})
            /\ e.losses = Cardinality({j \in mine : ~LiteralWin(games[ending[j]])})

\* C4, the part the code meets: with the player named in one color field only,
\* the decisive terminal games are wins or losses by the literal result.
C4_HoldsUnlessBothFields ==
    (\A i \in 1..Len(games) : games[i].White # games[i].Black \/ color = "white")
        => C4_DecisiveIsWinOrLoss

\* ------------------------------------------------------------- identification
\* player_name has been set (lines 258-259 passed).
Identified == pc \notin {"load", "identify"} /\ exception \in {"none", "SanError"}

Names == {games[i].White : i \in 1..Len(games)} \cup {games[i].Black : i \in 1..Len(games)}

\* the (game, color field) pairs naming n
Appearances(n) ==
    {i \in 1..Len(games) : games[i].White = n} \X {"White"}
        \cup {i \in 1..Len(games) : games[i].Black = n} \X {"Black"}

\* place of an appearance in the scan: game by game, White before Black
ScanPlace(a) == 2 * a[1] - (IF a[2] = "White" THEN 1 ELSE 0)

FirstSeen(n) ==
    CHOOSE k \in {ScanPlace(a) : a \in Appearances(n)} :
        \A a \in Appearances(n) : k <= ScanPlace(a)

\* C6: without --player the identified player has the most appearances in
\* non-empty White and Black headers, and among the names with as many it is
\* the one seen first; with --player it is the name given.
C6_MostFrequentFirstSeen ==
    Identified =>
        IF player = NoOverride
        THEN /\ player_name # ""
             /\ Appearances(player_name) # {}
             /\ \A n \in Names \ {""} :
                   /\ Cardinality(Appearances(n)) <= Cardinality(Appearances(player_name))
                   /\ Cardinality(Appearances(n)) = Cardinality(Appearances(player_name))
                          => FirstSeen(player_name) <= FirstSeen(n)
        ELSE player_name = player[1]

\* Two names tied at two appearances, the selected one through one game as
\* White and another as Black, the other through both fields of one game.
C6_Witness ==
    /\ Identified /\ player = NoOverride
    /\ Cardinality(Appearances(player_name)) = 2
    /\ \E a \in Appearances(player_name) : a[2] = "White"
    /\ \E a \in Appearances(player_name) : a[2] = "Black"
    /\ \E n \in Names \ {"", player_name} :
          /\ Cardinality(Appearances(n)) = 2
          /\ \E i \in 1..Len(games) : games[i].White = n /\ games[i].Black = n

\* ------------------------------------------------------------- failures
SanFailsOn(k) ==
    LET g == games[filtered_games[k]]
    IN  g.illegal # 0 /\ g.illegal <= Len(Line(k))

\* the line of the k-th filtered game runs through a move parse_san rejects
ThroughUnparseable(k) ==
    \E j \in 1..Len(Line(k)) : SubSeq(Line(k), 1, j) \in unparseable

\* C5: a failure of the notation service on one move is local: the run still
\* writes its output, and the output holds the line of every other game,
\* except below a move that could not be re-derived.
C5_NotationFailureIsLocal ==
    (pc = "done" /\ Identified /\ filtered_games # <<>>
        /\ \E k \in Filtered : Line(k) # <<>> /\ ~SanFailsOn(k)) =>
        /\ outcome = "saved" /\ output_file.opened
        /\ \A k \in Filtered :
              (Line(k) # <<>> /\ ~SanFailsOn(k) /\ ~ThroughUnparseable(k))
                  => \E e \in output_file.content : e.kind = "move" /\ e.path = Line(k)

\* C5, the part the code meets: when board.san rejects no move, the output is
\* written and holds every line but those below a move parse_san rejected,
\* each of which is reported.
C5_ReDerivationFailureIsLocal ==
    (pc = "done" /\ Identified /\ \A k \in Filtered : ~SanFailsOn(k))
        => /\ C5_NotationFailureIsLocal
           /\ Warnings \subseteq unparseable
           /\ \A k \in Filtered : ThroughUnparseable(k) => Warnings # {}

\* C7: a run that ends without success (input file missing or unreadable, no
\* players and no --player, no game of the player, no opening line, an
\* exception) ends in main, with the output file never opened; the file is
\* opened only by the last step and receives the complete repertoire.
C7_NoOutputOnFailure ==
    /\ outcome # "uncaught"
    /\ output_file.opened =>
          /\ pc = "done" /\ outcome = "saved" /\ exception = "none"
          /\ output_file.content = repertoire
          /\ repertoire = add_variations_to_node(build_move_tree(openings), <<>>,
                              unparseable, games, player_name, color,
                              total_games(openings))
    /\ (file_state # "ok"
        \/ exception # "none"
        \/ (pc \notin {"load", "identify"} /\ player = NoOverride /\ player_counts = <<>>)
        \/ (pc \notin {"load", "identify", "filter"} /\ filtered_games = <<>>)
        \/ (pc \notin {"load", "identify", "filter", "extract"}
               /\ \A k \in Filtered : Line(k) = <<>>))
          => ~output_file.opened /\ outcome # "saved"
    /\ pc = "done" => outcome \in {"input_not_found", "error", "no_games",
                                   "no_openings", "saved"}

\* Every unsuccessful end has been seen: this one is the exception raised by
\* board.san, caught in main after the games were filtered.
C7_Witness ==
    /\ pc = "done" /\ outcome = "error" /\ exception = "SanError"
    /\ filtered_games # <<>> /\ ~output_file.opened

====
